---- MODULE Spec2Model ----
(***************************************************************************)
(* Table tennis score keeper: the match-scoring engine of table_tennis.hpp *)
(* (game state, serve rule, win detection, bounded undo history) and the   *)
(* debounced button of avr_io.hpp.                                         *)
(***************************************************************************)
EXTENDS Integers, Sequences, FiniteSets, TLC

(***************************************************************************)
(* Program constants.                                                      *)
(***************************************************************************)
\* static const int MAX_UNDO = 32;
MAX_UNDO == 32

\* enum class game_mode { to_11, to_21 }
game_mode == {"to_11", "to_21"}

\* enum class serve_player { p1, p2 }
serve_player == {"p1", "p2"}

(***************************************************************************)
(* Bounds of the model.                                                    *)
(***************************************************************************)
\* The number of scoring calls made in one behaviour (caps the games_won
\* counters; one more than MAX_UNDO fills the history and evicts once).
MaxPoints == 33

\* The number of times a call may differ from the call made before it.
MaxChanges == 2

\* The largest number of digits of a seven segment display.
MaxDigits == 3

\* The largest number handed to the segment pins.
MaxNumber == 31

\* The number of iterations of the polling loop, and the number of times a
\* switch changes its level while it runs.
MaxIterations == 6

MaxPinChanges == 2

(***************************************************************************)
(* struct game_state, with its default member initialisers.                *)
(***************************************************************************)
game_state ==
    [p1_games_won |-> 0,
     p1_score     |-> 0,
     p2_games_won |-> 0,
     p2_score     |-> 0,
     first_serve  |-> "p1",
     mode         |-> "to_11"]

\* A table_tennis object after construction: default _state, a history array
\* of MAX_UNDO default-constructed game states, _history_index = -1.
table_tennis ==
    [_state         |-> game_state,
     _history       |-> [i \in 0..(MAX_UNDO - 1) |-> game_state],
     _history_index |-> -1]

(***************************************************************************)
(* Getters.                                                                *)
(***************************************************************************)
get_p1_games_won(t) == t._state.p1_games_won
get_p2_games_won(t) == t._state.p2_games_won
get_p1_score(t) == t._state.p1_score
get_p2_score(t) == t._state.p2_score

(***************************************************************************)
(* bool deuce() const                                                      *)
(***************************************************************************)
\* Variant: the deuce threshold taken to be the winning score (11 / 21).
deuce_at_target(t) ==
    LET deuce_points == IF t._state.mode = "to_11" THEN 11 ELSE 21
    IN  get_p1_score(t) >= deuce_points /\ get_p2_score(t) >= deuce_points

deuce(t) ==
    LET deuce_points == IF t._state.mode = "to_11" THEN 10 ELSE 20
    IN  get_p1_score(t) >= deuce_points /\ get_p2_score(t) >= deuce_points

(***************************************************************************)
(* serve_player serve() const                                              *)
(***************************************************************************)
\* Variant: the serve interval does not shorten to one point in deuce.
serve_no_deuce(t) ==
    LET serve_interval == IF t._state.mode = "to_11" THEN 2 ELSE 5
        num_intervals == (get_p1_score(t) + get_p2_score(t)) \div serve_interval
    IN  IF num_intervals % 2 = 0
        THEN (IF t._state.first_serve = "p1" THEN "p1" ELSE "p2")
        ELSE (IF t._state.first_serve = "p1" THEN "p2" ELSE "p1")

serve(t) ==
    LET serve_interval ==
            IF deuce(t) THEN 1
            ELSE (IF t._state.mode = "to_11" THEN 2 ELSE 5)
        num_intervals == (get_p1_score(t) + get_p2_score(t)) \div serve_interval
    IN  IF num_intervals % 2 = 0
        THEN (IF t._state.first_serve = "p1" THEN "p1" ELSE "p2")
        ELSE (IF t._state.first_serve = "p1" THEN "p2" ELSE "p1")

(***************************************************************************)
(* void save_state(): push _state on the history, shifting every entry     *)
(* down by one first when the array is full.                               *)
(***************************************************************************)
\* Variant: a full history is not shifted, the newest entry is overwritten.
save_state_no_shift(t) ==
    LET full == t._history_index = MAX_UNDO - 1
        idx  == IF full THEN t._history_index - 1 ELSE t._history_index
    IN  [t EXCEPT !._history       = [t._history EXCEPT ![idx + 1] = t._state],
                  !._history_index = idx + 1]

\* Variant: the full test is off by one (_history_index == MAX_UNDO), so the
\* index runs one past the last slot before the first shift.
save_state_off_by_one(t) ==
    LET full    == t._history_index = MAX_UNDO
        shifted == IF full
                   THEN [i \in 0..(MAX_UNDO - 1) |->
                            IF i < MAX_UNDO - 1 THEN t._history[i + 1]
                                                ELSE t._history[i]]
                   ELSE t._history
        idx     == IF full THEN t._history_index - 1 ELSE t._history_index
    IN  [t EXCEPT !._history       = [shifted EXCEPT ![idx + 1] = t._state],
                  !._history_index = idx + 1]

\* Variant: the shift loop copies upwards (_history[i + 1] = _history[i]),
\* which spreads the oldest entry over the array.
save_state_shift_up(t) ==
    LET full    == t._history_index = MAX_UNDO - 1
        shifted == IF full
                   THEN [i \in 0..(MAX_UNDO - 1) |-> t._history[0]]
                   ELSE t._history
        idx     == IF full THEN t._history_index - 1 ELSE t._history_index
    IN  [t EXCEPT !._history       = [shifted EXCEPT ![idx + 1] = t._state],
                  !._history_index = idx + 1]

save_state(t) ==
    LET full    == t._history_index = MAX_UNDO - 1
        shifted == IF full
                   THEN [i \in 0..(MAX_UNDO - 1) |->
                            IF i < MAX_UNDO - 1 THEN t._history[i + 1]
                                                ELSE t._history[i]]
                   ELSE t._history
        idx     == IF full THEN t._history_index - 1 ELSE t._history_index
    IN  [t EXCEPT !._history       = [shifted EXCEPT ![idx + 1] = t._state],
                  !._history_index = idx + 1]

(***************************************************************************)
(* void check_for_win()                                                    *)
(***************************************************************************)
\* Variant: the winner of a game serves first in the next one.
p1_wins_serves_next(t) ==
    [t EXCEPT !._state.p1_games_won = @ + 1,
              !._state.p1_score = 0,
              !._state.p2_score = 0,
              !._state.first_serve = "p1"]

p1_wins(t) ==
    [t EXCEPT !._state.p1_games_won = @ + 1,
              !._state.p1_score = 0,
              !._state.p2_score = 0]

p2_wins(t) ==
    [t EXCEPT !._state.p2_games_won = @ + 1,
              !._state.p1_score = 0,
              !._state.p2_score = 0]

\* Variant: in deuce a lead of one point already wins.
check_for_win_lead_one(t) ==
    IF deuce(t)
    THEN IF get_p1_score(t) >= get_p2_score(t) + 1 THEN p1_wins(t)
         ELSE IF get_p2_score(t) >= get_p1_score(t) + 1 THEN p2_wins(t)
         ELSE t
    ELSE LET win == IF t._state.mode = "to_11" THEN 11 ELSE 21
         IN  IF get_p1_score(t) >= win THEN p1_wins(t)
             ELSE IF get_p2_score(t) >= win THEN p2_wins(t)
             ELSE t

check_for_win(t) ==
    IF deuce(t)
    THEN IF get_p1_score(t) >= get_p2_score(t) + 2 THEN p1_wins(t)
         ELSE IF get_p2_score(t) >= get_p1_score(t) + 2 THEN p2_wins(t)
         ELSE t
    ELSE LET win == IF t._state.mode = "to_11" THEN 11 ELSE 21
         IN  IF get_p1_score(t) >= win THEN p1_wins(t)
             ELSE IF get_p2_score(t) >= win THEN p2_wins(t)
             ELSE t

(***************************************************************************)
(* void p1_score() / void p2_score()                                       *)
(***************************************************************************)
\* Variant: the state is saved after the point is added.
p1_score_save_late(t) ==
    check_for_win(save_state([t EXCEPT !._state.p1_score = @ + 1]))

p1_score(t) ==
    LET saved == save_state(t)
    IN  check_for_win([saved EXCEPT !._state.p1_score = @ + 1])

p2_score(t) ==
    LET saved == save_state(t)
    IN  check_for_win([saved EXCEPT !._state.p2_score = @ + 1])

(***************************************************************************)
(* void undo()                                                             *)
(***************************************************************************)
\* Variant: the guard is _history_index > 0, the oldest entry is never popped.
undo_keep_oldest(t) ==
    IF t._history_index > 0
    THEN [t EXCEPT !._state         = t._history[t._history_index],
                   !._history_index = @ - 1]
    ELSE t

\* Variant: no guard.  With an empty history _history[-1] is read, the memory
\* in front of the array (here: the bytes of _state's neighbours, read as a
\* game state with all bits set), and the index goes to -2, held at -1 here.
undo_unguarded(t) ==
    IF t._history_index >= 0
    THEN [t EXCEPT !._state         = t._history[t._history_index],
                   !._history_index = @ - 1]
    ELSE [t EXCEPT !._state = [p1_games_won |-> -1,
                               p1_score     |-> -1,
                               p2_games_won |-> -1,
                               p2_score     |-> -1,
                               first_serve  |-> "p2",
                               mode         |-> "to_21"]]

undo(t) ==
    IF t._history_index >= 0
    THEN [t EXCEPT !._state         = t._history[t._history_index],
                   !._history_index = @ - 1]
    ELSE t

(***************************************************************************)
(* void set_game_mode(game_mode) / void set_first_serve(serve_player)      *)
(***************************************************************************)
\* Variant: the lock tests the scores with || instead of &&.
set_game_mode_either(t, mode) ==
    IF get_p1_score(t) = 0 \/ get_p2_score(t) = 0
    THEN [t EXCEPT !._state.mode = mode]
    ELSE t

set_game_mode(t, mode) ==
    IF get_p1_score(t) = 0 /\ get_p2_score(t) = 0
    THEN [t EXCEPT !._state.mode = mode]
    ELSE t

\* Variant: the lock tests the scores with || instead of &&.
set_first_serve_either(t, first_serve_player) ==
    IF get_p1_score(t) = 0 \/ get_p2_score(t) = 0
    THEN [t EXCEPT !._state.first_serve = first_serve_player]
    ELSE t

\* Variant: the first server can only be set before the first game is won.
set_first_serve_match_start(t, first_serve_player) ==
    IF /\ get_p1_score(t) = 0 /\ get_p2_score(t) = 0
       /\ get_p1_games_won(t) = 0 /\ get_p2_games_won(t) = 0
    THEN [t EXCEPT !._state.first_serve = first_serve_player]
    ELSE t

set_first_serve(t, first_serve_player) ==
    IF get_p1_score(t) = 0 /\ get_p2_score(t) = 0
    THEN [t EXCEPT !._state.first_serve = first_serve_player]
    ELSE t

(***************************************************************************)
(* struct avr_button: enum class action, the members after construction,   *)
(* and check().                                                            *)
(***************************************************************************)
action == {"none", "pressed", "released"}

avr_button ==
    [_counter        |-> 0,
     _states         |-> [i \in 0..2 |-> "released"],
     _current_action |-> "released"]

\* uint8_t arithmetic.
uint8(x) == x % 256

\* The reading check() stores: with the pull-up enabled a high pin means
\* released, without it a high pin means pressed.
classified(pin_pull_up, pin_read) ==
    IF pin_pull_up
    THEN (IF pin_read THEN "released" ELSE "pressed")
    ELSE (IF pin_read THEN "pressed" ELSE "released")

\* Variant: the edge is not latched, three equal readings are reported at
\* every call.
check_level(b, pin_pull_up, pin_read) ==
    LET reading == IF pin_pull_up
                   THEN (IF pin_read THEN "released" ELSE "pressed")
                   ELSE (IF pin_read THEN "pressed" ELSE "released")
        states  == [b._states EXCEPT ![b._counter % 3] = reading]
        counted == [b EXCEPT !._counter = uint8(@ + 1), !._states = states]
        new_action == states[0]
    IN  IF states[0] = states[1] /\ states[1] = states[2]
        THEN [button |-> [counted EXCEPT !._current_action = new_action],
              ret    |-> new_action]
        ELSE [button |-> counted, ret |-> "none"]

\* Variant: only two of the three readings are compared.
check_two_readings(b, pin_pull_up, pin_read) ==
    LET reading == IF pin_pull_up
                   THEN (IF pin_read THEN "released" ELSE "pressed")
                   ELSE (IF pin_read THEN "pressed" ELSE "released")
        states  == [b._states EXCEPT ![b._counter % 3] = reading]
        counted == [b EXCEPT !._counter = uint8(@ + 1), !._states = states]
        new_action == states[0]
    IN  IF states[0] = states[1]
        THEN IF new_action = "pressed" /\ b._current_action = "released"
             THEN [button |-> [counted EXCEPT !._current_action = new_action],
                   ret    |-> "pressed"]
             ELSE IF new_action = "released" /\ b._current_action = "pressed"
             THEN [button |-> [counted EXCEPT !._current_action = new_action],
                   ret    |-> "released"]
             ELSE [button |-> counted, ret |-> "none"]
        ELSE [button |-> counted, ret |-> "none"]

\* action check(): the button after the call and the value returned, for a
\* pin with pull_up() = pin_pull_up whose read() gives pin_read.
check(b, pin_pull_up, pin_read) ==
    LET reading == IF pin_pull_up
                   THEN (IF pin_read THEN "released" ELSE "pressed")
                   ELSE (IF pin_read THEN "pressed" ELSE "released")
        states  == [b._states EXCEPT ![b._counter % 3] = reading]
        counted == [b EXCEPT !._counter = uint8(@ + 1), !._states = states]
        new_action == states[0]
    IN  IF states[0] = states[1] /\ states[1] = states[2]
        THEN IF new_action = "pressed" /\ b._current_action = "released"
             THEN [button |-> [counted EXCEPT !._current_action = new_action],
                   ret    |-> "pressed"]
             ELSE IF new_action = "released" /\ b._current_action = "pressed"
             THEN [button |-> [counted EXCEPT !._current_action = new_action],
                   ret    |-> "released"]
             ELSE [button |-> counted, ret |-> "none"]
        ELSE [button |-> counted, ret |-> "none"]

\* action state() const
state(b) == b._current_action

(***************************************************************************)
(* Seven segment displays: the segment bit masks, the SEVSEG table,        *)
(* avr_seven_segment_pins and avr_seven_segment_display<num_digits_t>.     *)
(***************************************************************************)
SEG_A == 1
SEG_B == 2
SEG_C == 4
SEG_D == 8
SEG_E == 16
SEG_F == 32
SEG_G == 64
SEG_DP == 128

\* static const int DIGIT_DELAY_MS = 3;
DIGIT_DELAY_MS == 3

\* mask & bit, mask | bit and mask & ~bit for a single-bit mask bit.
bit_and(mask, bit) == ((mask \div bit) % 2) * bit

bit_or(mask, bit) == IF bit_and(mask, bit) = 0 THEN mask + bit ELSE mask

bit_and_not(mask, bit) == mask - bit_and(mask, bit)

\* static constexpr uint8_t SEVSEG[16]; the segments of one glyph are
\* distinct bits, so their | is their sum.
SEVSEG ==
    [d \in 0..15 |->
        CASE d = 0  -> SEG_A + SEG_B + SEG_C + SEG_D + SEG_E + SEG_F
          [] d = 1  -> SEG_B + SEG_C
          [] d = 2  -> SEG_A + SEG_B + SEG_D + SEG_E + SEG_G
          [] d = 3  -> SEG_A + SEG_B + SEG_C + SEG_D + SEG_G
          [] d = 4  -> SEG_B + SEG_C + SEG_F + SEG_G
          [] d = 5  -> SEG_A + SEG_C + SEG_D + SEG_F + SEG_G
          [] d = 6  -> SEG_C + SEG_D + SEG_E + SEG_F + SEG_G
          [] d = 7  -> SEG_A + SEG_B + SEG_C
          [] d = 8  -> SEG_A + SEG_B + SEG_C + SEG_D + SEG_E + SEG_F + SEG_G
          [] d = 9  -> SEG_A + SEG_B + SEG_C + SEG_F + SEG_G
          [] d = 10 -> SEG_A + SEG_B + SEG_C + SEG_E + SEG_F + SEG_G
          [] d = 11 -> SEG_C + SEG_D + SEG_E + SEG_F + SEG_G
          [] d = 12 -> SEG_A + SEG_D + SEG_E + SEG_F
          [] d = 13 -> SEG_B + SEG_C + SEG_D + SEG_E + SEG_G
          [] d = 14 -> SEG_A + SEG_D + SEG_E + SEG_F + SEG_G
          [] d = 15 -> SEG_A + SEG_E + SEG_F + SEG_G]

\* avr_seven_segment_pins::display_decimal(number), clear() and
\* display_decimal_point(display): the mask each hands to display_custom(),
\* which sets the eight segment pins and _current_display to it.
seg_display_decimal(number) == SEVSEG[number % 10]

\* avr_seven_segment_pins::display_hex(number)
seg_display_hex(number) == SEVSEG[number % 16]

seg_clear == 0

seg_display_decimal_point(current_display, display) ==
    IF display THEN bit_or(current_display, SEG_DP)
               ELSE bit_and_not(current_display, SEG_DP)

\* Variant: the digit is blanked when the lowest digit of the remaining
\* number is zero (number % 10 tested instead of number).
digit_mask_low_digit(number, i, decimal_point) ==
    IF number % 10 # 0
    THEN seg_display_decimal(number % 10)
    ELSE IF i = 0 \/ (decimal_point >= 0 /\ i <= decimal_point)
         THEN seg_display_decimal(0)
         ELSE seg_clear

\* avr_seven_segment_display::display_decimal, the body of the loop up to
\* the decimal point: the mask written for digit i, number being what is
\* left of the number to display.
digit_mask(number, i, decimal_point) ==
    IF number # 0
    THEN seg_display_decimal(number % 10)
    ELSE IF i = 0 \/ (decimal_point >= 0 /\ i <= decimal_point)
         THEN seg_display_decimal(0)
         ELSE seg_clear

\* An avr_seven_segment_display<n> after construction, the pins low: the
\* levels of its digit-select pins, _current_display of its segment pins,
\* and the position in display_decimal (number, decimal_point and i are its
\* parameters and loop variable).
avr_seven_segment_display(n) ==
    [num_digits_t     |-> n,
     _digits          |-> [j \in 0..(n - 1) |-> FALSE],
     _current_display |-> 0,
     pc               |-> "idle",
     number           |-> 0,
     decimal_point    |-> -1,
     i                |-> 0]

\* clear_digits()
clear_digits(d) == [d EXCEPT !._digits = [j \in DOMAIN d._digits |-> FALSE]]

(***************************************************************************)
(* State.                                                                  *)
(*   tt       the table_tennis object of main()                            *)
(*   op       the member function called last, with its argument           *)
(*   pre      the table_tennis object as it was before that call           *)
(*   run      the current run of consecutive scoring calls and the undo    *)
(*            calls that directly follow it                                *)
(*   points   the number of scoring calls made so far                      *)
(*   changes  how often a call differed from the call before it            *)
(*   button      an avr_button                                             *)
(*   pull_up     pull_up() of the input pin the button was made from       *)
(*   last_check  the latest check() call on the button: the button before  *)
(*               the call and the value returned                           *)
(*   samples     the readings classified by the latest check() calls on    *)
(*               the button, at most three, the newest last                *)
(***************************************************************************)
VARIABLES tt, op, pre, run, points, changes, button, pull_up, last_check,
          samples, edges, display, render, phase, encoded, buttons, pins,
          leds, loop

engine_vars == <<tt, op, pre, run, points, changes>>

button_vars == <<button, pull_up, last_check, samples, edges>>

display_vars == <<display, render, phase, encoded>>

call_vars == <<op, pre, run, points, changes>>

loop_vars == <<buttons, pins, leds, loop>>

vars == <<engine_vars, button_vars, display_vars, loop_vars>>

\* No scoring call made yet, or the run was ended by a setter.
NoRun ==
    [calls  |-> 0,
     who    |-> <<>>,
     undos  |-> 0,
     index  |-> -1,
     start  |-> game_state,
     first  |-> game_state,
     second |-> game_state,
     last   |-> game_state]

\* No display call in progress.  value, decimal_point, mask and digit are
\* the arguments of the call in progress, before the display as a
\* display_custom call found it, log the outputs written by the call so far, in order, and
\* outside the slots of _digits it used that the array does not have.
NoRender ==
    [call          |-> "none",
     value         |-> 0,
     decimal_point |-> -1,
     mask          |-> 0,
     digit         |-> 0,
     before        |-> avr_seven_segment_display(1),
     log           |-> <<>>,
     outside       |-> {}]

\* The digits of p1_score_display, p1_games_won_display, p2_score_display
\* and p2_games_won_display, in the order the loop refreshes them.
display_digits == <<2, 1, 2, 1>>

\* The output phase before its first display_decimal() call: call is the
\* display the loop is at, held in the variable display, and selects the
\* levels of the digit-select pins of the four displays as their latest
\* call left them, low after reset.
NoPhase ==
    [call    |-> 1,
     selects |-> [k \in DOMAIN display_digits |->
                    [j \in 0..(display_digits[k] - 1) |-> FALSE]]]

\* No edge returned yet: last is the latest edge check() has returned and
\* before the one it returned before that.
NoEdge == [last |-> "none", before |-> "none"]

NoCheck == [called |-> FALSE, before |-> avr_button, ret |-> "none"]

\* The five buttons of the program, in the order the loop checks them.
button_names == {"game_mode", "first_serve", "undo", "p1_score", "p2_score"}

\* The buttons and serve LEDs as constructed, and the loop before its first
\* iteration.  pc is the statement of the loop to execute next, events the
\* calls the current iteration has made on tt, in order, each with whether
\* it changed tt, and rendered the numbers the latest output phase handed
\* to the four displays.
InitLoop ==
    /\ buttons = [b \in button_names |-> avr_button]
    /\ leds = [p1_serve_led |-> FALSE, p2_serve_led |-> FALSE]
    /\ loop = [pc          |-> "game_mode",
               iteration   |-> 0,
               pin_changes |-> 0,
               events      |-> <<>>,
               rendered    |-> <<>>]

\* table_tennis tt; in main()
InitEngine ==
    /\ tt = table_tennis
    /\ op = <<"none">>
    /\ pre = table_tennis
    /\ run = NoRun
    /\ points = 0
    /\ changes = 0

\* avr_button x_button(x_switch); every switch of the program is an input
\* pin with the pull-up enabled.
Init ==
    /\ InitEngine
    /\ button = avr_button
    /\ pull_up = TRUE
    /\ last_check = NoCheck
    /\ samples = <<>>
    /\ edges = NoEdge
    /\ display = avr_seven_segment_display(2)
    /\ render = NoRender
    /\ phase = NoPhase
    /\ encoded = <<>>
    /\ InitLoop
    /\ pins = [b \in button_names |-> TRUE]

\* An avr_button made from an input pin of either convention.
InitButton ==
    /\ InitEngine
    /\ button = avr_button
    /\ pull_up \in BOOLEAN
    /\ last_check = NoCheck
    /\ samples = <<>>
    /\ edges = NoEdge
    /\ display = avr_seven_segment_display(2)
    /\ render = NoRender
    /\ phase = NoPhase
    /\ encoded = <<>>
    /\ InitLoop
    /\ pins = [b \in button_names |-> TRUE]

\* The call c is made: the calls so far and c form at most MaxChanges + 1
\* blocks of equal consecutive calls.
Call(c) ==
    /\ op \in {<<"none">>, c} \/ changes < MaxChanges
    /\ op' = c
    /\ pre' = tt
    /\ changes' = IF op \in {<<"none">>, c} THEN changes ELSE changes + 1

\* A scoring call extends the run, or starts a new one after an undo or a
\* setter.  who are the calls of the run, in order, index and start are the history index and the game state before
\* the run, first and second the game states after its first and second
\* call, last the game state before its latest call.
Scored ==
    /\ points < MaxPoints
    /\ points' = points + 1
    /\ run' = IF run.calls = 0 \/ run.undos > 0
              THEN [calls  |-> 1,
                    who    |-> <<op'[1]>>,
                    undos  |-> 0,
                    index  |-> tt._history_index,
                    start  |-> tt._state,
                    first  |-> tt'._state,
                    second |-> tt'._state,
                    last   |-> tt._state]
              ELSE [run EXCEPT !.calls  = @ + 1,
                               !.who    = Append(@, op'[1]),
                               !.second = IF run.calls = 1 THEN tt'._state ELSE @,
                               !.last   = tt._state]

\* An undo call that finds an entry to pop is counted in the run.
Undone ==
    /\ run' = IF run.calls = 0 \/ tt._history_index < 0
              THEN run
              ELSE [run EXCEPT !.undos = @ + 1]
    /\ UNCHANGED points

\* if (p1_score_button.check() == pressed) tt.p1_score();
P1Score ==
    /\ Call(<<"p1_score">>)
    /\ tt' = p1_score(tt)
    /\ Scored
    /\ UNCHANGED <<button_vars, display_vars, loop_vars>>

\* if (p2_score_button.check() == pressed) tt.p2_score();
P2Score ==
    /\ Call(<<"p2_score">>)
    /\ tt' = p2_score(tt)
    /\ Scored
    /\ UNCHANGED <<button_vars, display_vars, loop_vars>>

\* if (undo_button.check() == pressed) tt.undo();
Undo ==
    /\ Call(<<"undo">>)
    /\ tt' = undo(tt)
    /\ Undone
    /\ UNCHANGED <<button_vars, display_vars, loop_vars>>

\* switch (game_mode_button.check()): tt.set_game_mode(to_11 / to_21)
SetGameMode ==
    \E m \in game_mode :
        /\ Call(<<"set_game_mode", m>>)
        /\ tt' = set_game_mode(tt, m)
        /\ run' = NoRun
        /\ UNCHANGED <<points, button_vars, display_vars, loop_vars>>

\* switch (first_serve_button.check()): tt.set_first_serve(p1 / p2)
SetFirstServe ==
    \E p \in serve_player :
        /\ Call(<<"set_first_serve", p>>)
        /\ tt' = set_first_serve(tt, p)
        /\ run' = NoRun
        /\ UNCHANGED <<points, button_vars, display_vars, loop_vars>>

Next ==
    \/ P1Score
    \/ P2Score
    \/ Undo
    \/ SetGameMode
    \/ SetFirstServe

Spec == Init /\ [][Next]_vars

\* The same calls on tt, as the specification of the properties of whole
\* games and matches.
NextMatch ==
    \/ P1Score
    \/ P2Score
    \/ Undo
    \/ SetGameMode
    \/ SetFirstServe

MatchSpec == Init /\ [][NextMatch]_vars

\* x_button.check() in the polling loop, the pin reading either level.
Check ==
    \E pin_read \in BOOLEAN :
        LET r == check(button, pull_up, pin_read)
        IN  /\ button' = r.button
            /\ last_check' = [called |-> TRUE, before |-> button, ret |-> r.ret]
            /\ samples' = LET all == Append(samples, classified(pull_up, pin_read))
                          IN  IF Len(all) > 3 THEN Tail(all) ELSE all
            /\ edges' = IF r.ret = "none" THEN edges
                        ELSE [last |-> r.ret, before |-> edges.last]
            /\ UNCHANGED <<pull_up, engine_vars, display_vars, loop_vars>>

NextButton == Check

\* The masks handed to display_custom(mask, digit).
CustomMasks == {0, SEG_G, SEG_A + SEG_DP, SEVSEG[8] + SEG_DP}

\* The outputs clear_digits() writes.
clear_digits_log(n) == [j \in 1..n |-> <<"digit", j - 1, FALSE>>]

\* A display of 1..MaxDigits digits, no call made on it yet.
InitDisplay ==
    /\ InitEngine
    /\ button = avr_button
    /\ pull_up = TRUE
    /\ last_check = NoCheck
    /\ samples = <<>>
    /\ edges = NoEdge
    /\ \E n \in 1..MaxDigits : display = avr_seven_segment_display(n)
    /\ render = NoRender
    /\ phase = NoPhase
    /\ encoded = <<>>
    /\ InitLoop
    /\ pins = [b \in button_names |-> TRUE]

\* display_decimal(number, decimal_point) is called: clear_digits() and the
\* loop is entered with i = 0.
DisplayDecimal ==
    /\ display.pc = "idle"
    /\ \E number \in 0..255, decimal_point \in -1..display.num_digits_t :
        /\ display' = [clear_digits(display) EXCEPT
                            !.pc = "segments",
                            !.number = number,
                            !.decimal_point = decimal_point,
                            !.i = 0]
        /\ render' = [NoRender EXCEPT
                            !.call = "display_decimal",
                            !.value = number,
                            !.decimal_point = decimal_point,
                            !.log = clear_digits_log(display.num_digits_t)]
    /\ UNCHANGED <<phase, encoded, engine_vars, button_vars, loop_vars>>

\* The pattern of digit i is written to the segment pins, the decimal
\* point added to it when i == decimal_point, and number loses its lowest
\* digit.
WriteSegments ==
    /\ display.pc = "segments"
    /\ LET m == digit_mask(display.number, display.i, display.decimal_point)
           point == display.i = display.decimal_point
           withPoint == seg_display_decimal_point(m, TRUE)
       IN  /\ display' = [display EXCEPT
                            !._current_display = IF point THEN withPoint ELSE m,
                            !.number = IF @ # 0 THEN @ \div 10 ELSE @,
                            !.pc = "select"]
           /\ render' = [render EXCEPT !.log =
                            IF point
                            THEN @ \o << <<"segments", m>>, <<"segments", withPoint>> >>
                            ELSE Append(@, <<"segments", m>>)]
    /\ UNCHANGED <<phase, encoded, engine_vars, button_vars, loop_vars>>

\* _digits[i]->set(true);
Select ==
    /\ display.pc = "select"
    /\ display' = [display EXCEPT !._digits[display.i] = TRUE, !.pc = "delay"]
    /\ render' = [render EXCEPT !.log = Append(@, <<"digit", display.i, TRUE>>)]
    /\ UNCHANGED <<phase, encoded, engine_vars, button_vars, loop_vars>>

\* _delay_ms(DIGIT_DELAY_MS);
Delay ==
    /\ display.pc = "delay"
    /\ display' = [display EXCEPT !.pc = "deselect"]
    /\ render' = [render EXCEPT !.log = Append(@, <<"delay", DIGIT_DELAY_MS>>)]
    /\ UNCHANGED <<phase, encoded, engine_vars, button_vars, loop_vars>>

\* Variant: the digit is left selected when the loop moves on.
Deselect_kept ==
    /\ display.pc = "deselect"
    /\ display' = [display EXCEPT !.pc = "clear"]
    /\ UNCHANGED <<render, phase, encoded, engine_vars, button_vars, loop_vars>>

\* _digits[i]->set(false);
Deselect ==
    /\ display.pc = "deselect"
    /\ display' = [display EXCEPT !._digits[display.i] = FALSE, !.pc = "clear"]
    /\ render' = [render EXCEPT !.log = Append(@, <<"digit", display.i, FALSE>>)]
    /\ UNCHANGED <<phase, encoded, engine_vars, button_vars, loop_vars>>

\* Variant: the segments are left as they are when the loop moves on.
ClearSegments_kept ==
    /\ display.pc = "clear"
    /\ display' = [display EXCEPT
                        !.i = @ + 1,
                        !.pc = IF display.i + 1 < display.num_digits_t
                               THEN "segments" ELSE "done"]
    /\ UNCHANGED <<render, phase, encoded, engine_vars, button_vars, loop_vars>>

\* _seg.clear(); ++i and the test of the loop.
ClearSegments ==
    /\ display.pc = "clear"
    /\ display' = [display EXCEPT
                        !._current_display = seg_clear,
                        !.i = @ + 1,
                        !.pc = IF display.i + 1 < display.num_digits_t
                               THEN "segments" ELSE "done"]
    /\ render' = [render EXCEPT !.log = Append(@, <<"segments", seg_clear>>)]
    /\ UNCHANGED <<phase, encoded, engine_vars, button_vars, loop_vars>>

\* display_custom(mask, digit).  _digits has the slots 0..num_digits_t - 1:
\* with digit = num_digits_t the pin pointer is read from behind the array
\* and set(true) is called through it, which leaves the digit-select pins
\* at any levels.
DisplayCustom ==
    /\ display.pc = "idle"
    /\ \E mask \in CustomMasks, digit \in 0..(MaxDigits + 1) :
        /\ render' = [NoRender EXCEPT
                            !.call = "display_custom",
                            !.mask = mask,
                            !.digit = digit,
                            !.before = display,
                            !.log = IF digit <= display.num_digits_t
                                    THEN clear_digits_log(display.num_digits_t)
                                         \o << <<"segments", mask>>,
                                                <<"digit", digit, TRUE>> >>
                                    ELSE <<>>,
                            !.outside = IF digit = display.num_digits_t
                                        THEN {digit} ELSE {}]
        /\ IF digit < display.num_digits_t
           THEN display' = [clear_digits(display) EXCEPT
                                !._current_display = mask,
                                !._digits[digit] = TRUE,
                                !.pc = "done"]
           ELSE IF digit = display.num_digits_t
           THEN \E levels \in [DOMAIN display._digits -> BOOLEAN] :
                    display' = [display EXCEPT
                                    !._current_display = mask,
                                    !._digits = levels,
                                    !.pc = "done"]
           ELSE display' = [display EXCEPT !.pc = "done"]
    /\ UNCHANGED <<phase, encoded, engine_vars, button_vars, loop_vars>>

\* The call returns, and its parameters and loop variable are no more.
Return ==
    /\ display.pc = "done"
    /\ display' = [display EXCEPT !.pc = "idle",
                                  !.number = 0,
                                  !.decimal_point = -1,
                                  !.i = 0]
    /\ render' = NoRender
    /\ UNCHANGED <<phase, encoded, engine_vars, button_vars, loop_vars>>

NextDisplay ==
    \/ DisplayDecimal
    \/ WriteSegments
    \/ Select
    \/ Delay
    \/ Deselect
    \/ ClearSegments
    \/ DisplayCustom
    \/ Return

DisplaySpec == InitDisplay /\ [][NextDisplay]_vars

(***************************************************************************)
(* The segment pins on their own: encoded holds the latest two calls, each *)
(* with the index into SEVSEG it used and the mask it wrote.               *)
(***************************************************************************)
Encoded(digit, mask) ==
    /\ encoded' = (IF Len(encoded) = 2 THEN Tail(encoded) ELSE encoded)
                      \o <<[digit |-> digit, mask |-> mask]>>
    /\ display' = [display EXCEPT !._current_display = mask]
    /\ UNCHANGED <<render, phase, engine_vars, button_vars, loop_vars>>

\* seven_segment_pins.display_decimal(number)
SegDisplayDecimal ==
    /\ display.pc = "idle"
    /\ \E number \in 0..MaxNumber :
            Encoded(number % 10, seg_display_decimal(number))

\* seven_segment_pins.display_hex(number)
SegDisplayHex ==
    /\ display.pc = "idle"
    /\ \E number \in 0..MaxNumber :
            Encoded(number % 16, seg_display_hex(number))

NextEncoder ==
    \/ SegDisplayDecimal
    \/ SegDisplayHex

EncoderSpec == Init /\ [][NextEncoder]_vars

(***************************************************************************)
(* The output phase of the polling loop: display_decimal() on the four     *)
(* displays in turn, which share the segment pins.                         *)
(***************************************************************************)
\* The loop moves from one display_decimal() call to the next, on the next
\* display, and from the last one through the input phase to the first.
NextCall ==
    /\ display.pc = "idle"
    /\ LET k == (phase.call % Len(display_digits)) + 1
       IN  /\ phase' = [call    |-> k,
                        selects |-> [phase.selects EXCEPT
                                        ![phase.call] = display._digits]]
           /\ display' = [avr_seven_segment_display(display_digits[k]) EXCEPT
                            !._digits = phase.selects[k],
                            !._current_display = display._current_display]
    /\ UNCHANGED <<render, encoded, engine_vars, button_vars, loop_vars>>

NextOutput ==
    \/ DisplayDecimal
    \/ WriteSegments
    \/ Select
    \/ Delay
    \/ Deselect
    \/ ClearSegments
    \/ Return
    \/ NextCall

OutputSpec == Init /\ [][NextOutput]_vars

(***************************************************************************)
(* The polling loop of main().                                             *)
(***************************************************************************)
\* Variant: the score buttons are handled before the first serve and undo
\* buttons.
next_pc_scores_first(pc) ==
    CASE pc = "game_mode"   -> "p1_score"
      [] pc = "p1_score"    -> "p2_score"
      [] pc = "p2_score"    -> "first_serve"
      [] pc = "first_serve" -> "undo"
      [] pc = "undo"        -> "leds"
      [] pc = "leds"        -> "displays"
      [] pc = "displays"    -> "game_mode"

\* The statement of the loop that follows the statement pc.
next_pc(pc) ==
    CASE pc = "game_mode"   -> "first_serve"
      [] pc = "first_serve" -> "undo"
      [] pc = "undo"        -> "p1_score"
      [] pc = "p1_score"    -> "p2_score"
      [] pc = "p2_score"    -> "leds"
      [] pc = "leds"        -> "displays"
      [] pc = "displays"    -> "game_mode"

\* The switches at any levels when the program starts.
InitMain ==
    /\ InitEngine
    /\ button = avr_button
    /\ pull_up = TRUE
    /\ last_check = NoCheck
    /\ samples = <<>>
    /\ edges = NoEdge
    /\ display = avr_seven_segment_display(2)
    /\ render = NoRender
    /\ phase = NoPhase
    /\ encoded = <<>>
    /\ InitLoop
    /\ pins \in [button_names -> BOOLEAN]

\* A switch changes its level.  Every pin is read once per iteration, so a
\* change at any time reads as one made between two iterations.
PinChange ==
    /\ loop.pc = "game_mode"
    /\ loop.iteration < MaxIterations
    /\ loop.pin_changes < MaxPinChanges
    /\ \E b \in button_names : pins' = [pins EXCEPT ![b] = ~@]
    /\ loop' = [loop EXCEPT !.pin_changes = @ + 1]
    /\ UNCHANGED <<buttons, leds, engine_vars, button_vars, display_vars>>

\* x_button.check() with the level of its switch, which has the pull-up
\* enabled.
checked(b) == check(buttons[b], TRUE, pins[b])

\* The statement at pc has checked button b, whose call, if it made one,
\* has taken tt to t.
Handled(b, calls, t) ==
    /\ buttons' = [buttons EXCEPT ![b] = checked(b).button]
    /\ tt' = t
    /\ loop' = [loop EXCEPT
                    !.pc = next_pc(@),
                    !.events = @ \o [k \in DOMAIN calls |->
                                        [call |-> calls[k], changed |-> t # tt]]]
    /\ UNCHANGED <<pins, leds, call_vars, button_vars, display_vars>>

\* switch (game_mode_button.check())
HandleGameMode ==
    /\ loop.pc = "game_mode"
    /\ loop.iteration < MaxIterations
    /\ LET ret == checked("game_mode").ret
       IN  CASE ret = "pressed" ->
                    Handled("game_mode", << <<"set_game_mode", "to_11">> >>,
                            set_game_mode(tt, "to_11"))
             [] ret = "released" ->
                    Handled("game_mode", << <<"set_game_mode", "to_21">> >>,
                            set_game_mode(tt, "to_21"))
             [] ret = "none" -> Handled("game_mode", <<>>, tt)

\* switch (first_serve_button.check())
HandleFirstServe ==
    /\ loop.pc = "first_serve"
    /\ LET ret == checked("first_serve").ret
       IN  CASE ret = "pressed" ->
                    Handled("first_serve", << <<"set_first_serve", "p1">> >>,
                            set_first_serve(tt, "p1"))
             [] ret = "released" ->
                    Handled("first_serve", << <<"set_first_serve", "p2">> >>,
                            set_first_serve(tt, "p2"))
             [] ret = "none" -> Handled("first_serve", <<>>, tt)

\* if (undo_button.check() == avr_button::action::pressed) tt.undo();
HandleUndo ==
    /\ loop.pc = "undo"
    /\ IF checked("undo").ret = "pressed"
       THEN Handled("undo", << <<"undo">> >>, undo(tt))
       ELSE Handled("undo", <<>>, tt)

\* if (p1_score_button.check() == avr_button::action::pressed) tt.p1_score();
HandleP1Score ==
    /\ loop.pc = "p1_score"
    /\ IF checked("p1_score").ret = "pressed"
       THEN Handled("p1_score", << <<"p1_score">> >>, p1_score(tt))
       ELSE Handled("p1_score", <<>>, tt)

\* if (p2_score_button.check() == avr_button::action::pressed) tt.p2_score();
HandleP2Score ==
    /\ loop.pc = "p2_score"
    /\ IF checked("p2_score").ret = "pressed"
       THEN Handled("p2_score", << <<"p2_score">> >>, p2_score(tt))
       ELSE Handled("p2_score", <<>>, tt)

\* Variant: both serve LEDs are set to the same level.
SetServeLeds_same ==
    /\ loop.pc = "leds"
    /\ leds' = [p1_serve_led |-> serve(tt) = "p1",
                p2_serve_led |-> serve(tt) = "p1"]
    /\ loop' = [loop EXCEPT !.pc = next_pc(@)]
    /\ UNCHANGED <<buttons, pins, engine_vars, button_vars, display_vars>>

\* p1_serve_led.set(tt.serve() == p1); p2_serve_led.set(!(tt.serve() == p1));
SetServeLeds ==
    /\ loop.pc = "leds"
    /\ leds' = [p1_serve_led |-> serve(tt) = "p1",
                p2_serve_led |-> ~(serve(tt) = "p1")]
    /\ loop' = [loop EXCEPT !.pc = next_pc(@)]
    /\ UNCHANGED <<buttons, pins, engine_vars, button_vars, display_vars>>

\* The four display_decimal() calls, each of which takes its int as a
\* uint8_t and leaves its display dark, and the loop starts over.
RefreshDisplays ==
    /\ loop.pc = "displays"
    /\ loop' = [loop EXCEPT
                    !.pc = next_pc(@),
                    !.iteration = @ + 1,
                    !.events = <<>>,
                    !.rendered = <<uint8(get_p1_score(tt)),
                                   uint8(get_p1_games_won(tt)),
                                   uint8(get_p2_score(tt)),
                                   uint8(get_p2_games_won(tt))>>]
    /\ UNCHANGED <<buttons, pins, leds, engine_vars, button_vars, display_vars>>

NextMain ==
    \/ PinChange
    \/ HandleGameMode
    \/ HandleFirstServe
    \/ HandleUndo
    \/ HandleP1Score
    \/ HandleP2Score
    \/ SetServeLeds
    \/ RefreshDisplays

MainSpec == InitMain /\ [][NextMain]_vars

ButtonSpec == InitButton /\ [][NextButton]_vars

(***************************************************************************)
(* Properties of the scoring engine.                                       *)
(***************************************************************************)
Other(p) == IF p = "p1" THEN "p2" ELSE "p1"

ScoreOf(s, p) == IF p = "p1" THEN s.p1_score ELSE s.p2_score

GamesOf(s, p) == IF p = "p1" THEN s.p1_games_won ELSE s.p2_games_won

ScoreCall(p) == IF p = "p1" THEN <<"p1_score">> ELSE <<"p2_score">>

DeuceThreshold(s) == IF s.mode = "to_11" THEN 10 ELSE 20

Target(s) == IF s.mode = "to_11" THEN 11 ELSE 21

\* Player p's win condition once p's score in game state s is incremented.
WinCondition(s, p) ==
    LET mine   == ScoreOf(s, p) + 1
        theirs == ScoreOf(s, Other(p))
    IN  IF mine >= DeuceThreshold(s) /\ theirs >= DeuceThreshold(s)
        THEN mine >= theirs + 2
        ELSE mine >= Target(s)

\* Game state s with one more game for p and both scores reset.
Won(s, p) ==
    IF p = "p1"
    THEN [s EXCEPT !.p1_games_won = @ + 1, !.p1_score = 0, !.p2_score = 0]
    ELSE [s EXCEPT !.p2_games_won = @ + 1, !.p1_score = 0, !.p2_score = 0]

\* Game state s with one more point for p.
Point(s, p) ==
    IF p = "p1" THEN [s EXCEPT !.p1_score = @ + 1]
                ELSE [s EXCEPT !.p2_score = @ + 1]

\* C1: a scoring call directly followed by undo() leaves the game state
\* exactly as it was before the scoring call (scores, games won, mode and
\* first serve), also with a full history and when the call won a game.
C1_RoundTrip ==
    (op = <<"undo">> /\ run.calls >= 1 /\ run.undos = 1) => tt._state = run.last

\* The 33rd scoring call found the history full and won a game; the undo
\* after it has run.
C1_Witness ==
    /\ op = <<"undo">>
    /\ run.index = -1 /\ run.calls = MAX_UNDO + 1 /\ run.undos = 1
    /\ pre._state.p1_games_won = tt._state.p1_games_won + 1
    /\ tt._state = run.last

\* C2: a scoring call of player p adds one game for p and resets both scores
\* exactly when p's win condition holds after the increment; otherwise it
\* adds one point for p; nothing else of the game state changes, and the
\* opponent's games_won is never incremented.
C2_ScoreStep ==
    \A p \in serve_player :
        op = ScoreCall(p) =>
            /\ tt._state = IF WinCondition(pre._state, p)
                           THEN Won(pre._state, p)
                           ELSE Point(pre._state, p)
            /\ GamesOf(tt._state, Other(p)) = GamesOf(pre._state, Other(p))

\* p2 has just won a game in deuce, 12 to 10.
C2_Witness ==
    /\ op = <<"p2_score">>
    /\ pre._state.p1_score = 10 /\ pre._state.p2_score = 11
    /\ tt._state.p2_games_won = pre._state.p2_games_won + 1
    /\ tt._state.p1_score = 0 /\ tt._state.p2_score = 0

\* The scenario of C3: 33 consecutive scoring calls from the initial game
\* state with an empty history, then 32 undo() calls.
EvictionRun ==
    /\ run.index = -1
    /\ run.start = game_state
    /\ run.calls = MAX_UNDO + 1
    /\ run.undos = MAX_UNDO

\* C3 as stated: the run ends in the game state as of immediately after the
\* second scoring call, not in the initial all-zero state.
C3_AfterSecondCall ==
    EvictionRun => (tt._state = run.second /\ tt._state # run.start)

\* C3, amended: the run ends in the game state as of immediately after the
\* first scoring call (only the initial snapshot was evicted), not in the
\* initial all-zero state.
C3_AfterFirstCall ==
    EvictionRun => (tt._state = run.first /\ tt._state # run.start)

C3_Witness ==
    EvictionRun /\ op = <<"undo">> /\ tt._history_index = -1

\* C4: with a nonzero score, set_game_mode and set_first_serve change neither
\* the game state nor the history, whatever the argument.
C4_ConfigLocked ==
    (/\ op[1] \in {"set_game_mode", "set_first_serve"}
     /\ (pre._state.p1_score # 0 \/ pre._state.p2_score # 0))
        => tt = pre

\* set_game_mode(to_21) was called in to_11 mode with the score at 0:1.
C4_Witness ==
    /\ op = <<"set_game_mode", "to_21">>
    /\ pre._state.mode = "to_11"
    /\ pre._state.p1_score = 0 /\ pre._state.p2_score = 1
    /\ tt = pre

\* The serve rule: the serve interval is 1 in deuce, else 2 (to_11) or 5
\* (to_21); after an even number of elapsed intervals first_serve serves,
\* after an odd number the other player.
ServeRule(s) ==
    LET total    == s.p1_score + s.p2_score
        in_deuce == s.p1_score >= DeuceThreshold(s) /\ s.p2_score >= DeuceThreshold(s)
        interval == IF in_deuce THEN 1 ELSE IF s.mode = "to_11" THEN 2 ELSE 5
        n        == CHOOSE k \in 0..total :
                        k * interval <= total /\ total < (k + 1) * interval
    IN  IF n % 2 = 0 THEN s.first_serve ELSE Other(s.first_serve)

\* C5: serve() follows the serve rule in every reachable state; in to_11
\* with first_serve = p1 it is p1 at combined totals 0 and 1 and p2 at
\* combined totals 2 and 3.
C5_Serve ==
    /\ serve(tt) = ServeRule(tt._state)
    /\ (tt._state.mode = "to_11" /\ tt._state.first_serve = "p1") =>
          /\ tt._state.p1_score + tt._state.p2_score \in {0, 1} => serve(tt) = "p1"
          /\ tt._state.p1_score + tt._state.p2_score \in {2, 3} => serve(tt) = "p2"

\* Deuce at 10:11 with first_serve = p1: 21 one-point intervals, p2 serves.
C5_Witness ==
    /\ tt._state.mode = "to_11" /\ tt._state.first_serve = "p1"
    /\ tt._state.p1_score = 10 /\ tt._state.p2_score = 11
    /\ serve(tt) = "p2"

\* C6: undo() with an empty history changes nothing; with a non-empty
\* history it replaces the game state by the newest entry and removes it.
C6_Undo ==
    op = <<"undo">> =>
        IF pre._history_index = -1
        THEN tt = pre
        ELSE /\ tt._state = pre._history[pre._history_index]
             /\ tt._history_index = pre._history_index - 1
             /\ tt._history = pre._history

\* undo() was called with an empty history and a score of 1:0.
C6_Witness ==
    /\ op = <<"undo">>
    /\ pre._history_index = -1
    /\ pre._state.p1_score = 1
    /\ tt = pre

C8_ChangesOnlyOnWin ==
    \A p \in serve_player :
        GamesOf(tt._state, p) # GamesOf(pre._state, p) =>
            (op = ScoreCall(p) /\ WinCondition(pre._state, p))

\* C8, amended: a player's games_won increases only in a scoring call of
\* that player in which the win condition is met, and then by one; the two
\* setters never change it; undo() never raises it, it restores the saved
\* value, which is lower when the undone call had won a game.
C8_IncreasesOnlyOnWin ==
    \A p \in serve_player :
        /\ GamesOf(tt._state, p) > GamesOf(pre._state, p) =>
              /\ op = ScoreCall(p)
              /\ WinCondition(pre._state, p)
              /\ GamesOf(tt._state, p) = GamesOf(pre._state, p) + 1
        /\ GamesOf(tt._state, p) < GamesOf(pre._state, p) =>
              /\ op = <<"undo">>
              /\ pre._history_index >= 0
              /\ GamesOf(tt._state, p) = GamesOf(pre._history[pre._history_index], p)

\* undo() has taken back a winning point: games_won went down by one.
C8_Witness ==
    /\ op = <<"undo">>
    /\ tt._state.p1_games_won = pre._state.p1_games_won - 1
    /\ tt._state.p1_score = 10

\* C9: the history index stays within -1 .. MAX_UNDO - 1, the history keeps
\* its MAX_UNDO slots, and a scoring call leaves the index on the slot it
\* wrote.
C9_HistoryBounds ==
    /\ tt._history_index \in -1..(MAX_UNDO - 1)
    /\ DOMAIN tt._history = 0..(MAX_UNDO - 1)
    /\ op[1] \in {"p1_score", "p2_score"} =>
          /\ tt._history_index \in 0..(MAX_UNDO - 1)
          /\ tt._history[tt._history_index] = pre._state

\* A scoring call was made with a full history.
C9_Witness ==
    /\ op[1] \in {"p1_score", "p2_score"}
    /\ pre._history_index = MAX_UNDO - 1
    /\ tt._history_index = MAX_UNDO - 1

\* C14: in deuce every scoring call that does not end the game hands the
\* serve to the other player.
C14_DeuceServeFlips ==
    \A p \in serve_player :
        (/\ op = ScoreCall(p)
         /\ pre._state.p1_score >= DeuceThreshold(pre._state)
         /\ pre._state.p2_score >= DeuceThreshold(pre._state)
         /\ ~WinCondition(pre._state, p))
            => serve(tt) = Other(serve(pre))

\* p1 has scored at 10:10 in to_11 mode; the game goes on at 11:10.
C14_Witness ==
    /\ op = <<"p1_score">>
    /\ pre._state.mode = "to_11"
    /\ pre._state.p1_score = 10 /\ pre._state.p2_score = 10
    /\ tt._state.p1_score = 11 /\ tt._state.p2_score = 10
    /\ serve(tt) # serve(pre)

\* The number of entries the history of t holds.
Length(t) == t._history_index + 1

\* C15: a scoring call on a full history h[0..31] leaves h[1..31] followed
\* by the game state before the call; on a history of k < 32 entries it
\* leaves the same k entries followed by the game state before the call.
C15_Push ==
    op[1] \in {"p1_score", "p2_score"} =>
        IF Length(pre) = MAX_UNDO
        THEN /\ Length(tt) = MAX_UNDO
             /\ \A i \in 0..(MAX_UNDO - 2) : tt._history[i] = pre._history[i + 1]
             /\ tt._history[MAX_UNDO - 1] = pre._state
        ELSE /\ Length(tt) = Length(pre) + 1
             /\ \A i \in 0..(Length(pre) - 1) : tt._history[i] = pre._history[i]
             /\ tt._history[Length(pre)] = pre._state

\* A scoring call has evicted the oldest entry, which differed from the
\* second oldest.
C15_Witness ==
    /\ op[1] \in {"p1_score", "p2_score"}
    /\ Length(pre) = MAX_UNDO
    /\ pre._history[0] # pre._history[1]
    /\ tt._history[0] = pre._history[1]
    /\ tt._history[MAX_UNDO - 1] = pre._state

\* How each call changes the length of the history (serve() is const and
\* changes no member).
LengthSteps ==
    /\ op[1] \in {"p1_score", "p2_score"} =>
          Length(tt) = IF Length(pre) = MAX_UNDO THEN MAX_UNDO ELSE Length(pre) + 1
    /\ op = <<"undo">> =>
          Length(tt) = IF Length(pre) = 0 THEN 0 ELSE Length(pre) - 1
    /\ op[1] \in {"set_game_mode", "set_first_serve"} =>
          (tt._history = pre._history /\ tt._history_index = pre._history_index)

\* C16 as stated: the length steps, and no call empties a non-empty history
\* in one step.
C16_NeverEmptied ==
    /\ LengthSteps
    /\ Length(pre) > 0 => Length(tt) > 0

\* C16, amended: the length steps, and no call removes more than one entry
\* in one step; a non-empty history becomes empty only by undo() on a
\* history of one entry.
C16_OneEntryAtATime ==
    /\ LengthSteps
    /\ Length(tt) >= Length(pre) - 1
    /\ (Length(pre) > 0 /\ Length(tt) = 0) => (op = <<"undo">> /\ Length(pre) = 1)

\* undo() has popped the only entry of the history.
C16_Witness ==
    /\ op = <<"undo">>
    /\ Length(pre) = 1
    /\ Length(tt) = 0

Resolved(s) ==
    \/ /\ s.p1_score >= DeuceThreshold(s)
       /\ s.p2_score >= DeuceThreshold(s)
       /\ s.p1_score - s.p2_score \in {-1, 0, 1}
    \/ /\ s.p1_score < Target(s)
       /\ s.p2_score < Target(s)

\* C21: in every reachable state either both scores are at or above the
\* deuce threshold of the current mode and differ by at most 1, or both are
\* below the target of the current mode.
C21_NoUnresolvedWin == Resolved(tt._state)

\* undo() has gone back across a change of the mode, from 0:0 in to_21 to
\* 10:0 in to_11.
C21_Witness ==
    /\ op = <<"undo">>
    /\ pre._state.mode = "to_21"
    /\ tt._state.mode = "to_11"
    /\ tt._state.p1_score = 10
    /\ tt._state.p2_score = 0

\* C22: a call made with a nonzero score leaves mode and first_serve as they
\* were, whichever call it is; they differ across a call only when both
\* scores were 0 before it.
C22_ConfigLock ==
    (op # <<"none">> /\ (pre._state.p1_score # 0 \/ pre._state.p2_score # 0)) =>
        /\ tt._state.mode = pre._state.mode
        /\ tt._state.first_serve = pre._state.first_serve

\* undo() was called at 2:0, after first_serve had been set to p2 at 0:0,
\* and took a point back.
C22_Witness ==
    /\ op = <<"undo">>
    /\ pre._state.p1_score = 2
    /\ tt._state.p1_score = 1
    /\ tt._state.first_serve = "p2"
    /\ tt._history_index = 0

\* The game state after the first n calls of the scoring calls who, made
\* from game state s.
RECURSIVE Replay(_, _, _)
Replay(s, who, n) ==
    IF n = 0 THEN s
    ELSE LET before == Replay(s, who, n - 1)
             p      == IF who[n] = "p1_score" THEN "p1" ELSE "p2"
         IN  IF WinCondition(before, p) THEN Won(before, p) ELSE Point(before, p)

\* C23: when consecutive scoring calls have been followed by k undo()
\* calls, 1 <= k <= 32 and k at most the number of scoring calls, the game
\* state is the one before the first of the last k scoring calls.
C23_Stack ==
    (run.undos >= 1 /\ run.undos <= run.calls /\ run.undos <= MAX_UNDO) =>
        tt._state = Replay(run.start, run.who, run.calls - run.undos)

\* 32 undo() calls have taken back the last 32 of 33 scoring calls of both
\* players, the first of which pushed the entry that was evicted.
C23_Witness ==
    /\ run.calls = MAX_UNDO + 1
    /\ run.undos = MAX_UNDO
    /\ run.who[1] = "p2_score"
    /\ run.who[MAX_UNDO + 1] = "p1_score"
    /\ tt._state.p2_score = 1
    /\ tt._history_index = -1

\* C24: a scoring call that wins a game leaves the score at 0:0 with
\* first_serve as it was, and serve() is first_serve.
C24_FirstServerStartsGame ==
    \A p \in serve_player :
        (op = ScoreCall(p) /\ GamesOf(tt._state, p) # GamesOf(pre._state, p)) =>
            /\ tt._state.p1_score = 0 /\ tt._state.p2_score = 0
            /\ tt._state.first_serve = pre._state.first_serve
            /\ serve(tt) = pre._state.first_serve

\* p1 has won a game in deuce on p1's own serve, and p2, the first server,
\* serves again.
C24_Witness ==
    /\ op = <<"p1_score">>
    /\ tt._state.p1_games_won = pre._state.p1_games_won + 1
    /\ pre._state.p2_score >= 10
    /\ serve(pre) = "p1"
    /\ pre._state.first_serve = "p2"
    /\ serve(tt) = "p2"

(***************************************************************************)
(* Properties of the debounced button.                                     *)
(***************************************************************************)
AllReadings(a) == \A i \in 0..2 : button._states[i] = a

\* C10: check() returns pressed exactly when after this sample all three
\* slots hold pressed and the latched state was released, released exactly
\* when all three hold released and the latched state was pressed, and none
\* otherwise; the latched state changes exactly in the calls that return an
\* edge, and then equals the edge returned.
C10_EdgeRule ==
    last_check.called =>
        /\ last_check.ret \in action
        /\ last_check.ret = "pressed" <=>
              (AllReadings("pressed") /\ state(last_check.before) = "released")
        /\ last_check.ret = "released" <=>
              (AllReadings("released") /\ state(last_check.before) = "pressed")
        /\ state(button) # state(last_check.before) <=> last_check.ret # "none"
        /\ last_check.ret # "none" => state(button) = last_check.ret

\* A released edge was returned, on a pin without pull-up, after the write
\* counter has gone round the three slots.
C10_Witness ==
    /\ last_check.called
    /\ last_check.ret = "released"
    /\ ~pull_up
    /\ button._counter > 3

\* How many of the three slots, and of the latest samples, hold a.
InSlots(a) == Cardinality({i \in 0..2 : button._states[i] = a})

InSamples(a) == Cardinality({i \in 1..Len(samples) : samples[i] = a})

\* C20: from the third check() call on, the three slots hold exactly the
\* three most recent classified samples, also past the wrap of the 8-bit
\* write counter, and an edge is returned only when those three samples are
\* all equal.
C20_LastThreeSamples ==
    Len(samples) = 3 =>
        /\ \A a \in {"pressed", "released"} : InSlots(a) = InSamples(a)
        /\ last_check.ret # "none" => (samples[1] = samples[2] /\ samples[2] = samples[3])

\* C25: when the three latest check() calls have read the same value, the
\* latched state is that value, also around the wrap of the 8-bit counter.
C25_BoundedResponse ==
    (Len(samples) = 3 /\ samples[1] = samples[2] /\ samples[2] = samples[3]) =>
        state(button) = samples[3]

\* C26: the edges check() returns alternate, the first of them is pressed,
\* and a released edge is returned only by a call that reads released, so
\* that a button held down returns no second pressed edge.
C26_EdgesAlternate ==
    /\ edges.last # "none" =>
          /\ edges.last # edges.before
          /\ edges.before = "none" => edges.last = "pressed"
    /\ (last_check.called /\ last_check.ret = "released") =>
          samples[Len(samples)] = "released"

\* A second pressed edge was returned, after a released one, by a call made
\* after the counter has wrapped.
C26_Witness ==
    /\ last_check.called
    /\ last_check.ret = "pressed"
    /\ edges.before = "released"
    /\ last_check.before._counter < 3
    /\ samples = <<"pressed", "pressed", "pressed">>

(***************************************************************************)
(* Properties of the seven segment display.                                *)
(***************************************************************************)
RECURSIVE Pow10(_)
Pow10(i) == IF i = 0 THEN 1 ELSE 10 * Pow10(i - 1)

\* The glyph digit i of a numeric render shows, without the decimal point.
Glyph(value, dp, i) ==
    LET rest == value \div Pow10(i)
    IN  IF rest # 0
        THEN SEVSEG[rest % 10]
        ELSE IF i = 0 \/ (dp >= 0 /\ i <= dp) THEN SEVSEG[0] ELSE 0

\* The pattern digit i of a numeric render shows.
Shown(value, dp, i) ==
    IF i = dp THEN Glyph(value, dp, i) + SEG_DP ELSE Glyph(value, dp, i)

\* C18: in display_decimal(value, dp) on an N-digit display, while digit i
\* is selected it is the only digit selected and the segments show the glyph
\* of (value div 10^i) mod 10 when value div 10^i is nonzero, else the glyph
\* of 0 when i = 0 or (dp >= 0 and i <= dp), else nothing, with the decimal
\* point bit added exactly when i = dp.
C18_Render ==
    (render.call = "display_decimal" /\ display.pc \in {"delay", "deselect"}) =>
        /\ \A j \in DOMAIN display._digits : display._digits[j] <=> j = display.i
        /\ display._current_display =
              Shown(render.value, render.decimal_point, display.i)

\* Digit 1 of 105 is selected with the decimal point on it: the remaining
\* number is nonzero and its lowest digit is zero.
C18_Witness ==
    /\ render.call = "display_decimal"
    /\ display.pc = "delay"
    /\ display.i = 1
    /\ render.value = 105
    /\ render.decimal_point = 1
    /\ display._current_display = SEVSEG[0] + SEG_DP

\* The segment writes of digit i: the glyph, then the glyph with the
\* decimal point when i = dp.
PatternWrites(value, dp, i) ==
    IF i = dp
    THEN << <<"segments", Glyph(value, dp, i)>>, <<"segments", Shown(value, dp, i)>> >>
    ELSE << <<"segments", Glyph(value, dp, i)>> >>

\* The outputs of digits i..n-1 with the select output enabled before the
\* pattern is written.
RECURSIVE SelectFirst(_, _, _, _)
SelectFirst(value, dp, i, n) ==
    IF i >= n THEN <<>>
    ELSE << <<"digit", i, TRUE>> >>
         \o PatternWrites(value, dp, i)
         \o << <<"delay", DIGIT_DELAY_MS>>, <<"digit", i, FALSE>>, <<"segments", 0>> >>
         \o SelectFirst(value, dp, i + 1, n)

\* The outputs of digits i..n-1 with the pattern written before the select
\* output is enabled.
RECURSIVE PatternFirst(_, _, _, _)
PatternFirst(value, dp, i, n) ==
    IF i >= n THEN <<>>
    ELSE PatternWrites(value, dp, i)
         \o << <<"digit", i, TRUE>>, <<"delay", DIGIT_DELAY_MS>>,
               <<"digit", i, FALSE>>, <<"segments", 0>> >>
         \o PatternFirst(value, dp, i + 1, n)

\* The outputs of the N digits, after those that switch all digits off.
DigitOutputs == SubSeq(render.log, display.num_digits_t + 1, Len(render.log))

\* C19 as stated: a completed display_decimal has written, for the digits
\* 0..N-1 in order: digit select enabled, segment pattern, hold delay,
\* digit select disabled, segments cleared.
C19_SelectThenPattern ==
    (render.call = "display_decimal" /\ display.pc = "done") =>
        DigitOutputs = SelectFirst(render.value, render.decimal_point, 0,
                                   display.num_digits_t)

\* C19: a completed display_decimal has written, for the digits 0..N-1 in
\* order: segment pattern, digit select enabled, hold delay, digit select
\* disabled, segments cleared.
C19_PatternThenSelect ==
    (render.call = "display_decimal" /\ display.pc = "done") =>
        DigitOutputs = PatternFirst(render.value, render.decimal_point, 0,
                                    display.num_digits_t)

\* A two-digit render of 42 is complete.
C19_Witness ==
    /\ render.call = "display_decimal"
    /\ display.pc = "done"
    /\ display.num_digits_t = 2
    /\ render.value = 42
    /\ Len(render.log) = 12

\* C12: display_custom(mask, digit) with digit outside 0..N-1 writes no
\* output, leaves the display as it was and uses no slot of _digits outside
\* 0..N-1.
C12_OutOfRangeNoOp ==
    (render.call = "display_custom" /\ display.pc = "done"
        /\ render.digit >= display.num_digits_t) =>
        /\ render.log = <<>>
        /\ render.outside = {}
        /\ display._digits = render.before._digits
        /\ display._current_display = render.before._current_display

\* The digit-select pins that are high, of the four displays.
Selected ==
    {<<k, j>> \in (DOMAIN display_digits) \X (0..(MaxDigits - 1)) :
        /\ j < display_digits[k]
        /\ IF k = phase.call THEN display._digits[j] ELSE phase.selects[k][j]}

\* C27: in the output phase at most one of the six digit-select outputs of
\* the four displays is enabled, and when a display_decimal() call returns
\* the digit-select outputs of its display are disabled and all segments
\* are off.
C27_OneDigitSelected ==
    /\ Cardinality(Selected) <= 1
    /\ (render.call = "display_decimal" /\ display.pc = "done") =>
          /\ \A j \in DOMAIN display._digits : ~display._digits[j]
          /\ display._current_display = 0

\* The tens digit of p2_score_display, the third display refreshed, is
\* selected and shows a 4.
C27_Witness ==
    /\ phase.call = 3
    /\ render.call = "display_decimal"
    /\ display.pc = "delay"
    /\ Selected = {<<3, 1>>}
    /\ display._current_display = SEVSEG[4]

\* C28: two calls of the segment pins with different digit values write
\* different patterns, and no pattern of a digit value has the decimal
\* point bit.
C28_EncoderInjective ==
    /\ \A a, b \in DOMAIN encoded :
          encoded[a].digit # encoded[b].digit => encoded[a].mask # encoded[b].mask
    /\ \A a \in DOMAIN encoded : bit_and(encoded[a].mask, SEG_DP) = 0

(***************************************************************************)
(* Properties of the polling loop.                                         *)
(***************************************************************************)
\* The place of a call in the order mode toggle, first-serve toggle, undo,
\* p1 point, p2 point.
Place(call) ==
    CASE call[1] = "set_game_mode"   -> 1
      [] call[1] = "set_first_serve" -> 2
      [] call[1] = "undo"            -> 3
      [] call[1] = "p1_score"        -> 4
      [] call[1] = "p2_score"        -> 5

\* The calls of the current iteration that changed the game state or the
\* history.
Effective == {k \in DOMAIN loop.events : loop.events[k].changed}

\* C11 as stated: at most one scoring or configuration event is applied in
\* one iteration of the polling loop; events that leave the engine as it
\* was are not even counted.
C11_OneEventPerIteration == Cardinality(Effective) <= 1

\* C11: in one iteration of the polling loop each button applies at most one
\* event, and the events are applied in the order mode toggle, first-serve
\* toggle, undo, p1 point, p2 point: at most five per iteration.
C11_OneEventPerButton ==
    \A j, k \in DOMAIN loop.events :
        j < k => Place(loop.events[j].call) < Place(loop.events[k].call)

\* An iteration has applied an undo that found a point to take back, and
\* then a point of p2.
C11_Witness ==
    /\ Len(loop.events) = 2
    /\ \A k \in 1..2 : loop.events[k].changed
    /\ loop.events[1].call = <<"undo">>
    /\ loop.events[2].call = <<"p2_score">>

\* C13: after the output phase of an iteration p1_serve_led is on iff
\* serve() = p1 and p2_serve_led is on iff serve() = p2, so exactly one of
\* the two is on.
C13_ServeLeds ==
    (loop.pc = "game_mode" /\ loop.iteration > 0) =>
        /\ leds.p1_serve_led <=> serve(tt) = "p1"
        /\ leds.p2_serve_led <=> serve(tt) = "p2"
        /\ leds.p1_serve_led # leds.p2_serve_led

\* An output phase is over with the serve at p2 after a point was scored.
C13_Witness ==
    /\ loop.pc = "game_mode"
    /\ loop.iteration > 0
    /\ tt._state.p1_score + tt._state.p2_score > 0
    /\ serve(tt) = "p2"
    /\ leds.p2_serve_led
    /\ loop.rendered = <<tt._state.p1_score, 0, tt._state.p2_score, 0>>

====
